---- MODULE Spec2Model ----
(***************************************************************************)
(* Model of the user-account endpoints of coffeecartel-backend:            *)
(*   src/src/services/userService.mjs  (loginUser, registerUser,           *)
(*                                      updateUserProfile)                 *)
(*   src/src/routes/user.mjs           (POST /login, POST /register,       *)
(*                                      GET /protected,                    *)
(*                                      PATCH /updateProfile)              *)
(* The user table, the signing secret, the requests in flight (each at an  *)
(* await of its handler) and the response last sent are the state.         *)
(***************************************************************************)
EXTENDS Naturals, FiniteSets

VARIABLES secretKey, users, req, out

vars == <<secretKey, users, req, out>>

(* ---------------------------------------------------------------------- *)
(* Bounds and input domains                                                *)
(* ---------------------------------------------------------------------- *)

\* number of requests that can be in flight (suspended at an await) at once
NReq == 2

Req == 1..NReq

Usernames == {"alice", "bob"}
Emails == {"alice@x.com", "bob@x.com"}
Passwords == {"secret1", "wrong"}
FirstNames == {"Alice", "Alicia"}
LastNames == {"Lee", "Koh"}
Addresses == {"Addr1"}

\* process.env.SECRET_KEY is a string, or undefined when the variable is not set
Undefined == "undefined"
Secrets == {Undefined, "s3cr3t"}

\* values the role column can hold: the two known roles and a legacy one
Roles == {"user", "admin", "guest"}

NoUser == [none |-> TRUE]
NoToken == [none |-> TRUE]
NoOut == [op |-> "none"]

\* the body of a request that fails validation is none of the typed inputs
BadArgs == [none |-> TRUE]
Idle == [pc |-> "idle"]

\* a request that ended without res.json being called
NoResponse == [status |-> 0]

(* ---------------------------------------------------------------------- *)
(* Collaborators                                                           *)
(* ---------------------------------------------------------------------- *)

\* hashPassword: an opaque digest, never the plaintext itself
hashPassword(password) == [digest |-> password]

\* comparePasswords(hash, plain): true exactly for the hashed plaintext
comparePasswords(hashed, password) == hashed.digest = password

\* jwt.sign(payload, secret): the payload under the secret's signature
JwtSign(payload, key) == [claims |-> payload, sig |-> key]

\* jwt.sign throws "secretOrPrivateKey must have a value" for a missing secret
JwtSignThrows(key) == key = Undefined

\* verifyToken: the bearer token's signature checks under the secret
TokenValid(token) ==
    /\ token # NoToken
    /\ secretKey # Undefined
    /\ token.sig = secretKey

\* UserModel.findOne({ where: { username } }): a row of that username, or null
findOne(username) ==
    IF \E row \in users : row.username = username
    THEN CHOOSE row \in users : row.username = username
    ELSE NoUser

\* the unique constraints a new row would violate
Violated(username, email) ==
    (IF \E row \in users : row.username = username THEN {"username"} ELSE {})
    \cup (IF \E row \in users : row.email = email THEN {"email"} ELSE {})


\* a request that arrives is handled in the first slot that is free
FreeSlot(r) == req[r] = Idle /\ \A q \in Req : q < r => req[q] # Idle

(* ---------------------------------------------------------------------- *)
(* Responses                                                               *)
(* ---------------------------------------------------------------------- *)

ValidationFailed == [status |-> 400, error |-> "Validation failed. Please check your inputs"]

InternalError == [status |-> 500, error |-> "Internal server error"]

InvalidCredentials == [status |-> 401, error |-> "Invalid username or password"]

\* the claims signed into a token and returned to the caller
userData(user) ==
    [role |-> user.role, username |-> user.username, fname |-> user.fname,
     lname |-> user.lname, email |-> user.email, address |-> user.address]

(* ---------------------------------------------------------------------- *)
(* POST /login                                                             *)
(* ---------------------------------------------------------------------- *)

LoginArgs == [username : Usernames, password : Passwords]

\* loginUser: the user row, or false (NoUser) when absent or on a mismatch
loginUser(username, password) ==
    LET user == findOne(username)
    IN  IF user = NoUser THEN NoUser
        ELSE IF comparePasswords(user.hashed_password, password) THEN user
        ELSE NoUser

\* user.role === "admin" || user.role === "user"; false.role is undefined
isValid(user) == user # NoUser /\ user.role \in {"admin", "user"}

\* a login handler that tells an unknown username from a wrong password
LoginResponseNotFound(username, password, dbFault) ==
    IF dbFault THEN InternalError
    ELSE IF findOne(username) = NoUser
    THEN [status |-> 404, error |-> "User not found"]
    ELSE LET user == loginUser(username, password)
         IN  IF isValid(user)
             THEN IF JwtSignThrows(secretKey) THEN InternalError
                  ELSE [status |-> 200,
                        token |-> JwtSign(userData(user), secretKey),
                        user |-> userData(user)]
             ELSE InvalidCredentials

\* the handler's answer; dbFault: findOne rejects
LoginResponse(username, password, dbFault) ==
    IF dbFault THEN InternalError
    ELSE LET user == loginUser(username, password)
         IN  IF isValid(user)
             THEN IF JwtSignThrows(secretKey) THEN InternalError
                  ELSE [status |-> 200,
                        token |-> JwtSign(userData(user), secretKey),
                        user |-> userData(user)]
             ELSE InvalidCredentials

Login(args, valid, dbFault) ==
    /\ out' = [op |-> "login",
               args |-> args,
               valid |-> valid,
               fault |-> valid /\ dbFault,
               resp |-> IF valid
                        THEN LoginResponse(args.username, args.password, dbFault)
                        ELSE ValidationFailed]
    /\ UNCHANGED <<secretKey, users, req>>

(* ---------------------------------------------------------------------- *)
(* POST /register                                                          *)
(* ---------------------------------------------------------------------- *)

RegisterArgs ==
    [username : Usernames, password : Passwords, fname : FirstNames,
     lname : LastNames, email : Emails, address : Addresses]

\* a registerUser that grants the administrator role
NewUserAdmin(args, hashedPassword) ==
    [role |-> "admin", username |-> args.username,
     hashed_password |-> hashedPassword, fname |-> args.fname,
     lname |-> args.lname, email |-> args.email, address |-> args.address]

\* the row registerUser hands to UserModel.create
NewUser(args, hashedPassword) ==
    [role |-> "user", username |-> args.username,
     hashed_password |-> hashedPassword, fname |-> args.fname,
     lname |-> args.lname, email |-> args.email, address |-> args.address]

\* UserModel.create under the unique constraints: the table with the row
\* inserted, or the table as it was when a constraint would be violated
create(row) ==
    IF Violated(row.username, row.email) = {} THEN users \cup {row}
    ELSE users

\* a registerUser that upserts where the code creates
InsertUserUpsert(row) ==
    {old \in users : old.username # row.username} \cup {row}

\* await UserModel.create({...}) in registerUser: no check of its own
InsertUser(row) == create(row)

\* the message of the Error registerUser throws for a failed create
RegisterErrorMessage(errorName, field) ==
    IF errorName = "SequelizeUniqueConstraintError"
    THEN IF field = "username" THEN "Username already exists"
         ELSE IF field = "email" THEN "Email already exists"
         ELSE "Username or email already exists"
    ELSE "Error registering user"

\* the catch block of the /register handler
RegisterFailure(message) ==
    IF message \in {"Username already exists", "Email already exists",
                    "Email or username already exists"}
    THEN [status |-> 401, error |-> message]
    ELSE InternalError

AccountCreated == [status |-> 201, msg |-> "Account created successfully"]

\* validation, then await hashPassword(password)
RegisterStart(r, args, valid) ==
    /\ FreeSlot(r)
    /\ IF valid
       THEN /\ req' = [req EXCEPT ![r] = [pc |-> "hashed", op |-> "register",
                                          args |-> args,
                                          hashedPassword |-> hashPassword(args.password)]]
            /\ out' = NoOut
       ELSE /\ req' = req
            /\ out' = [op |-> "register", args |-> args, valid |-> FALSE,
                       fault |-> FALSE, field |-> "none", resp |-> ValidationFailed]
    /\ UNCHANGED <<secretKey, users>>

\* await UserModel.create(...) and the response. dbFault: create rejects with an
\* error other than a constraint violation; field: the column the driver reports
\* for a violated constraint ("unknown" when it reports none of the two)
RegisterCreate(r, dbFault, field) ==
    /\ req[r].pc = "hashed"
    /\ LET args == req[r].args
           row == NewUser(args, req[r].hashedPassword)
           dup == Violated(args.username, args.email)
       IN  /\ field \in (IF dbFault \/ dup = {} THEN {"none"} ELSE dup \cup {"unknown"})
           /\ users' = IF dbFault THEN users ELSE InsertUser(row)
           /\ out' = [op |-> "register", args |-> args, valid |-> TRUE,
                      fault |-> dbFault, field |-> field,
                      resp |-> IF dbFault
                               THEN RegisterFailure(RegisterErrorMessage("SequelizeConnectionError", field))
                               ELSE IF dup # {}
                               THEN RegisterFailure(RegisterErrorMessage("SequelizeUniqueConstraintError", field))
                               ELSE AccountCreated]
    /\ req' = [req EXCEPT ![r] = Idle]
    /\ UNCHANGED secretKey

(* ---------------------------------------------------------------------- *)
(* GET /protected                                                          *)
(* ---------------------------------------------------------------------- *)

\* a token signed by someone who does not hold the secret
ForgedToken(username) ==
    [claims |-> [role |-> "admin", username |-> username, fname |-> "Alice",
                 lname |-> "Lee", email |-> "alice@x.com", address |-> "Addr1"],
     sig |-> "forged"]

\* the bearer tokens a client can send: none, a forged one, or the one the
\* server has just issued
Presentable ==
    {NoToken, ForgedToken("alice")}
    \cup (IF out # NoOut /\ "token" \in DOMAIN out.resp THEN {out.resp.token} ELSE {})

Unauthorized == [status |-> 401, error |-> "Unauthorized"]

\* verifyToken, then res.json({ status: 200, user: req.decoded })
ProtectedResponse(token) ==
    IF TokenValid(token) THEN [status |-> 200, user |-> token.claims]
    ELSE Unauthorized

Protected(token) ==
    /\ out' = [op |-> "protected", args |-> [bearer |-> token], valid |-> TRUE,
               fault |-> FALSE, resp |-> ProtectedResponse(token)]
    /\ UNCHANGED <<secretKey, users, req>>

(* ---------------------------------------------------------------------- *)
(* PATCH /updateProfile                                                    *)
(* ---------------------------------------------------------------------- *)

UpdateArgs ==
    [username : Usernames, firstname : FirstNames, lastname : LastNames,
     address : Addresses]

\* an updateUserProfile that also resets the role
MutateRole(user, args) ==
    [user EXCEPT !.role = "user", !.fname = args.firstname,
                 !.lname = args.lastname, !.address = args.address]

\* an updateUserProfile that forgets to assign the last name
MutateNoLname(user, args) ==
    [user EXCEPT !.fname = args.firstname, !.address = args.address]

\* user.fname = firstname; user.lname = lastname; user.address = address
Mutate(user, args) ==
    [user EXCEPT !.fname = args.firstname, !.lname = args.lastname,
                 !.address = args.address]

\* the attributes the assignments marked as changed on the instance
Changed(user, args) ==
    {f \in DOMAIN user : Mutate(user, args)[f] # user[f]}

\* user.save(): an UPDATE of the changed attributes of the row
save(user, changed) ==
    {IF row.username = user.username
     THEN [f \in DOMAIN row |-> IF f \in changed THEN user[f] ELSE row[f]]
     ELSE row : row \in users}

\* the catch block of the /updateProfile handler reads errorMessage, which is
\* not defined in its scope: the ReferenceError leaves the request unanswered
UpdateCatch == NoResponse

ProfileUpdateFailed == [status |-> 400, msg |-> "Profile update failed"]

\* the handler's answer once updateUserProfile has returned user
UpdateResponse(user) ==
    IF JwtSignThrows(secretKey) THEN UpdateCatch
    ELSE [status |-> 200, msg |-> "Profile updated successfully",
          token |-> JwtSign(userData(user), secretKey),
          userData |-> userData(user)]

\* the bearer token proves that its sender acts for username
Proves(token, username) == TokenValid(token) /\ token.claims.username = username

\* proven: the request carried a valid bearer token for args.username (the
\* route mounts no verifyToken, so the handler itself never looks)
UpdateOut(args, proven, valid, fault, resp) ==
    [op |-> "update", args |-> args, proven |-> proven, valid |-> valid,
     fault |-> fault, resp |-> resp]

\* validation, await UserModel.findOne, and the assignments to the instance
UpdateFind(r, args, bearer, valid, dbFault) ==
    /\ FreeSlot(r)
    /\ IF ~valid
       THEN /\ out' = UpdateOut(args, FALSE, FALSE, FALSE, ValidationFailed)
            /\ req' = req
       ELSE LET user == findOne(args.username)
       IN  IF dbFault
           THEN /\ out' = UpdateOut(args, Proves(bearer, args.username), TRUE, TRUE, UpdateCatch)
                /\ req' = req
           ELSE IF user = NoUser
           THEN /\ out' = UpdateOut(args, Proves(bearer, args.username), TRUE, FALSE, ProfileUpdateFailed)
                /\ req' = req
           ELSE /\ out' = NoOut
                /\ req' = [req EXCEPT ![r] =
                              [pc |-> "found", op |-> "update", args |-> args,
                               proven |-> Proves(bearer, args.username),
                               user |-> Mutate(user, args),
                               changed |-> Changed(user, args)]]
    /\ UNCHANGED <<secretKey, users>>

\* await user.save(); dbFault: save rejects
UpdateSave(r, dbFault) ==
    /\ req[r].pc = "found"
    /\ IF dbFault
       THEN /\ users' = users
            /\ out' = UpdateOut(req[r].args, req[r].proven, TRUE, TRUE, UpdateCatch)
            /\ req' = [req EXCEPT ![r] = Idle]
       ELSE /\ users' = save(req[r].user, req[r].changed)
            /\ out' = NoOut
            /\ req' = [req EXCEPT ![r] = [@ EXCEPT !.pc = "saved", !.changed = {}]]
    /\ UNCHANGED secretKey

\* back in the handler: sign the claims of the instance and answer
UpdateRespond(r) ==
    /\ req[r].pc = "saved"
    /\ out' = UpdateOut(req[r].args, req[r].proven, TRUE,
                        JwtSignThrows(secretKey), UpdateResponse(req[r].user))
    /\ req' = [req EXCEPT ![r] = Idle]
    /\ UNCHANGED <<secretKey, users>>

(* ---------------------------------------------------------------------- *)
(* Specifications                                                          *)
(* ---------------------------------------------------------------------- *)

\* the bodies a request can carry: the typed ones when it passes validation
Typed(Args, valid) == IF valid THEN Args ELSE {BadArgs}

\* no request is suspended at an await
Quiet == \A r \in Req : req[r] = Idle

\* the steps that continue a request in flight
Continue ==
    \/ \E r \in Req, dbFault \in BOOLEAN, field \in {"none", "username", "email", "unknown"} :
          RegisterCreate(r, dbFault, field)
    \/ \E r \in Req, dbFault \in BOOLEAN : UpdateSave(r, dbFault)
    \/ \E r \in Req : UpdateRespond(r)

\* the service starts on an empty user table
Init ==
    /\ secretKey \in Secrets
    /\ users = {}
    /\ req = [r \in Req |-> Idle]
    /\ out = NoOut

\* requests arrive one after the other
Next ==
    \/ /\ Quiet
       /\ \E valid \in BOOLEAN :
             \E args \in Typed(LoginArgs, valid), dbFault \in BOOLEAN :
                Login(args, valid, dbFault)
    \/ /\ Quiet
       /\ \E r \in Req, valid \in BOOLEAN :
             \E args \in Typed(RegisterArgs, valid) : RegisterStart(r, args, valid)
    \/ /\ Quiet
       /\ \E token \in Presentable : Protected(token)
    \/ /\ Quiet
       /\ \E r \in Req, valid \in BOOLEAN :
             \E args \in Typed(UpdateArgs, valid), bearer \in Presentable,
                dbFault \in BOOLEAN :
                UpdateFind(r, args, bearer, valid, dbFault)
    \/ Continue

Spec == Init /\ [][Next]_vars

\* a table as an earlier deployment may have left it: rows of any role
StoredUser(username, role, email) ==
    [role |-> role, username |-> username,
     hashed_password |-> hashPassword("secret1"), fname |-> "Alice",
     lname |-> "Lee", email |-> email, address |-> "Addr1"]

InitStores ==
    {a \cup b :
        a \in {{}} \cup {{StoredUser("alice", ro, "alice@x.com")} : ro \in Roles},
        b \in {{}} \cup {{StoredUser("bob", ro, "bob@x.com")} : ro \in Roles}}

InitStore ==
    /\ secretKey \in Secrets
    /\ users \in InitStores
    /\ req = [r \in Req |-> Idle]
    /\ out = NoOut

\* logins, token checks and profile updates against such a table
NextStore ==
    \/ /\ Quiet
       /\ \E valid \in BOOLEAN :
             \E args \in Typed(LoginArgs, valid), dbFault \in BOOLEAN :
                Login(args, valid, dbFault)
    \/ /\ Quiet
       /\ \E token \in Presentable : Protected(token)
    \/ /\ Quiet
       /\ \E r \in Req, valid \in BOOLEAN :
             \E args \in Typed(UpdateArgs, valid), bearer \in Presentable,
                dbFault \in BOOLEAN :
                UpdateFind(r, args, bearer, valid, dbFault)
    \/ \E r \in Req, dbFault \in BOOLEAN : UpdateSave(r, dbFault)
    \/ \E r \in Req : UpdateRespond(r)

SpecStore == InitStore /\ [][NextStore]_vars

\* register requests that overlap: a request may arrive while others are
\* suspended at an await
ConcRegisterArgs ==
    [username : Usernames, password : Passwords, fname : {"Alice"},
     lname : {"Lee"}, email : Emails, address : {"Addr1"}]

NextRegister ==
    \/ \E r \in Req, args \in ConcRegisterArgs : RegisterStart(r, args, TRUE)
    \/ \E r \in Req, dbFault \in BOOLEAN, field \in {"none", "username", "email", "unknown"} :
          RegisterCreate(r, dbFault, field)

SpecRegister == Init /\ [][NextRegister]_vars

\* updateProfile requests that overlap, on a table that holds alice's row
InitUpdate ==
    /\ secretKey \in Secrets
    /\ users = {StoredUser("alice", "user", "alice@x.com")}
    /\ req = [r \in Req |-> Idle]
    /\ out = NoOut

NextUpdate ==
    \/ \E r \in Req, args \in UpdateArgs, dbFault \in BOOLEAN :
          UpdateFind(r, args, NoToken, TRUE, dbFault)
    \/ \E r \in Req, dbFault \in BOOLEAN : UpdateSave(r, dbFault)
    \/ \E r \in Req : UpdateRespond(r)

SpecUpdate == InitUpdate /\ [][NextUpdate]_vars

(* ---------------------------------------------------------------------- *)
(* Properties                                                              *)
(* ---------------------------------------------------------------------- *)

\* out answers a request that passed validation
Answered(op) == out # NoOut /\ out.op = op /\ out.valid

HasToken(resp) == "token" \in DOMAIN resp

\* the six public fields of a row, which session claims are made of
PublicFields(row) ==
    [role |-> row.role, username |-> row.username, fname |-> row.fname,
     lname |-> row.lname, email |-> row.email, address |-> row.address]

\* the credentials verify against the stored row and its role is a known one
CredentialsOk(username, password) ==
    LET row == findOne(username)
    IN  /\ row # NoUser
        /\ comparePasswords(row.hashed_password, password)
        /\ row.role \in {"user", "admin"}

\* C1: a validated login that meets no storage fault answers 200 with a token
\* exactly when a row of that username exists, the password verifies against
\* its hash and its role is user or admin, and 401 "Invalid username or
\* password" without a token otherwise; on success the claims and the returned
\* user are the row's six public fields, never the hashed password.
C1_LoginContract ==
    (Answered("login") /\ ~out.fault) =>
        LET row == findOne(out.args.username)
        IN  IF CredentialsOk(out.args.username, out.args.password)
            THEN /\ out.resp.status = 200
                 /\ HasToken(out.resp)
                 /\ out.resp.token.claims = PublicFields(row)
                 /\ out.resp.user = PublicFields(row)
                 /\ "hashed_password" \notin DOMAIN out.resp.user
                 /\ "hashed_password" \notin DOMAIN out.resp.token.claims
            ELSE out.resp = InvalidCredentials

UniqueUsers ==
    \A a, b \in users : (a.username = b.username \/ a.email = b.email) => a = b

\* C2: under every interleaving of register requests no two stored rows share
\* a username or an email, and a register that hits a uniqueness violation
\* leaves the table exactly as it was.
C2_UniqueAndAtomic ==
    /\ []UniqueUsers
    /\ [][(out' # NoOut /\ out'.op = "register" /\ out'.valid /\ out'.field # "none")
            => users' = users]_vars

\* two register requests overlapped and the later create met the constraint
C2_Witness ==
    /\ Answered("register")
    /\ out.field \in {"username", "email"}
    /\ out.resp.status = 401
    /\ \E r \in Req : req[r].pc = "hashed"
    /\ users # {}

\* the message the caller is to see for the constraint that fired
DuplicateMessage(field) ==
    IF field = "username" THEN "Username already exists"
    ELSE IF field = "email" THEN "Email already exists"
    ELSE "Email or username already exists"

\* C3: a register that hits a uniqueness violation answers with the message of
\* the constraint that fired ("Username already exists", "Email already
\* exists", or "Email or username already exists" when the field is not
\* determinable), never with the generic "Internal server error".
C3_DuplicateMessages ==
    (Answered("register") /\ out.field # "none") =>
        /\ out.resp.error = DuplicateMessage(out.field)
        /\ out.resp.error # "Internal server error"

\* the row of a username agrees with its earlier self outside the profile
SameIdentity(old, new) ==
    /\ new.username = old.username
    /\ new.email = old.email
    /\ new.role = old.role
    /\ new.hashed_password = old.hashed_password

\* C4: updateUserProfile changes at most fname, lname and address of the row of
\* its username: that row's username, email, role and hashed_password and every
\* other row stay as they are, no row is created or deleted, an update of an
\* absent username changes nothing, and whoever could log in before an update
\* can log in with the same password after it.
C4_UpdateFrame ==
    [][/\ Cardinality(users') = Cardinality(users)
       /\ \A old \in users : \E new \in users' : SameIdentity(old, new)
       /\ \A old \in users \ users' :
             \E r \in Req : req[r].pc = "found" /\ req[r].args.username = old.username
       /\ (out' # NoOut /\ out'.op = "update" /\ out'.resp = ProfileUpdateFailed)
             => users' = users
       /\ \A u \in Usernames, p \in Passwords :
             /\ (loginUser(u, p) # NoUser) => (loginUser(u, p) # NoUser)'
             /\ (LoginResponse(u, p, FALSE).status)' = LoginResponse(u, p, FALSE).status
      ]_vars

\* an administrator's profile was updated and the update answered
C4_Witness ==
    /\ Answered("update")
    /\ out.resp.status = 200
    /\ LET row == findOne(out.args.username)
       IN  /\ row.role = "admin"
           /\ row.fname = "Alicia"
           /\ row.lname = "Koh"
           /\ loginUser(row.username, "secret1") = row

\* C5: a request that met a persistence fault or another unexpected fault ends
\* with one response, status 500 and the generic internal-error message.
C5_FaultAnswered500 ==
    (out # NoOut /\ out.fault) => out.resp = InternalError

\* C6: a login for a username without a row and a login with a password that
\* does not verify get the same response: 401 "Invalid username or password".
C6_NoEnumeration ==
    (Answered("login") /\ ~out.fault) =>
        LET row == findOne(out.args.username)
        IN  (row = NoUser \/ ~comparePasswords(row.hashed_password, out.args.password))
                => out.resp = InvalidCredentials

\* a login for a stored username with a password that does not verify
C6_Witness ==
    /\ Answered("login")
    /\ ~out.fault
    /\ findOne(out.args.username) # NoUser
    /\ ~comparePasswords(findOne(out.args.username).hashed_password, out.args.password)
    /\ findOne("bob") = NoUser
    /\ out.resp.status = 401

\* C7 as stated: the claims of the token a successful updateProfile issues are
\* the persisted row of that username as it stands when the response is sent,
\* under every interleaving of updateProfile requests.
C7_TokenIsPersistedRow ==
    (Answered("update") /\ out.resp.status = 200) =>
        out.resp.token.claims = PublicFields(findOne(out.args.username))

\* C7 amended: the claims of the token a successful updateProfile issues are
\* the request's in-memory copy: role, username and email of the persisted row
\* and the request's own firstname, lastname and address.
C7_TokenIsOwnCopy ==
    (Answered("update") /\ out.resp.status = 200) =>
        LET row == findOne(out.args.username)
        IN  /\ row # NoUser
            /\ out.resp.token.claims =
                  [role |-> row.role, username |-> row.username,
                   fname |-> out.args.firstname, lname |-> out.args.lastname,
                   email |-> row.email, address |-> out.args.address]
            /\ out.resp.userData = out.resp.token.claims

\* an updateProfile answered while another one on the same username is in flight
C7_Witness ==
    /\ Answered("update")
    /\ out.resp.status = 200
    /\ \E r \in Req : /\ req[r].pc \in {"found", "saved"}
                      /\ req[r].args.username = out.args.username
                      /\ req[r].args # out.args

\* C8: with the signing secret absent no request is processed: no user row is
\* created or modified and no token is issued.
C8_NoSecretNoEffect ==
    (secretKey = Undefined) =>
        /\ users = {}
        /\ (out # NoOut => ~HasToken(out.resp))

\* C9: from an empty table every stored row has role user, a row comes into
\* existence only through a successful register, the stored usernames never
\* shrink, and a successful register answers 201 without a token.
C9_Lifecycle ==
    /\ [](\A row \in users : row.role = "user")
    /\ []((Answered("register") /\ out.resp.status = 201)
            => (out.resp = AccountCreated /\ ~HasToken(out.resp)))
    /\ [][/\ {row.username : row \in users} \subseteq {row.username : row \in users'}
          /\ \A new \in users' :
                (\A old \in users : old.username # new.username)
                    => /\ out'.op = "register"
                       /\ out'.valid
                       /\ out'.resp.status = 201
                       /\ out'.args.username = new.username
                       /\ out'.args.email = new.email
         ]_vars

\* the second account has just been registered
C9_Witness ==
    /\ Answered("register")
    /\ out.resp.status = 201
    /\ Cardinality(users) = 2
    /\ \E row \in users : row.fname = "Alicia"

\* C10: a token whose claims name a user is issued only to a login that gave
\* that user's password or to a request that presented a valid bearer token
\* for that user.
C10_TokenOnlyToProven ==
    (out # NoOut /\ HasToken(out.resp)) =>
        \/ /\ out.op = "login"
           /\ CredentialsOk(out.args.username, out.args.password)
           /\ out.resp.token.claims.username = out.args.username
        \/ /\ out.op = "update"
           /\ out.proven
           /\ out.resp.token.claims.username = out.args.username

====
